---- MODULE Spec2Model ----
(***************************************************************************)
(* Model of the LLama2 model runtime (source/model/llama2.cpp): the        *)
(* memory-mapped weight file (LLamaRawModelData), the loader               *)
(* (read_model_file), init / init_mem / forward, and the buffer registry   *)
(* (insert_buffer / get_buffer), together with Buffer::copy_from as        *)
(* exercised by test/test_tensor/test_buffer.cpp.                          *)
(*                                                                         *)
(* Pointers are modelled as sequences: <<>> is nullptr, <<obj>> points to  *)
(* obj.  Operating-system resources (stdio handles, descriptors,           *)
(* mappings) are identified by fresh positive integers.                    *)
(***************************************************************************)
EXTENDS Integers, Sequences, FiniteSets, TLC

VARIABLES
  tok,      \* the token-vocabulary file behind token_path_
  file,     \* the model file behind model_path_
  model,    \* the fields of the LLama2Model object
  os,       \* resources the process holds: stdio handles, descriptors, mappings
  ret,      \* what the last call did: operation, returned status, abort, writes
  calls,    \* number of API calls made so far
  mem,      \* Buffer model: the bytes of the host and accelerator memory spaces
  dst,      \* Buffer model: destination buffer of copy_from
  src       \* Buffer model: source buffer of copy_from

vars == <<tok, file, model, os, ret, calls, mem, dst, src>>

-----------------------------------------------------------------------------
(* Bounds *)
MaxCalls    == 3    \* API calls per behaviour
MaxFileSize == 45   \* model file sizes 0..MaxFileSize bytes
MaxTokens   == 3    \* longest token sequence handed to forward
MaxOffset   == 12   \* element offsets 0..MaxOffset tried on is_weight_valid
MaxTensorId == 4    \* distinct tensors offered to insert_buffer
MaxByte     == 1    \* byte values 0..MaxByte in the Buffer model

(* Program constants *)
FloatSize  == 4     \* sizeof(float)
HeaderSize == 28    \* sizeof(LlamaModelConfig); the struct is declared in model/llama2.h,
                    \* taken here as seven int32 fields; only HeaderSize % FloatSize = 0 matters
MAP_FAILED == -1
BufLen     == 2     \* byte length of the buffers in the copy tests (scaled)

NULL == <<>>

DeviceTypes == {"kDeviceCPU", "kDeviceCUDA"}
Dims        == {1, 2}
SeqLens     == {1, 2}
VocabSizes  == {-2, 2, 3}
PieceSizes  == {0, 2}
TokenIds    == {0, 2}
BufferIdxs  == {"kInputTokens", "kInputEmbeddings"}

abs(x) == IF x < 0 THEN -x ELSE x

RECURSIVE SeqsUpTo(_, _)
SeqsUpTo(S, n) ==
  IF n = 0 THEN {<<>>}
  ELSE LET shorter == SeqsUpTo(S, n - 1)
       IN shorter \cup {Append(s, x) : s \in {t \in shorter : Len(t) = n - 1}, x \in S}

-----------------------------------------------------------------------------
(* LLamaRawModelData *)

\* a default-constructed LLamaRawModelData: no descriptor, no mapping
NewRawModelData ==
  [file_size |-> 0, fd |-> -1, data |-> 0, weight_data |-> 0]

\* ~LLamaRawModelData(): munmap the mapping if any, close the descriptor if any
Destroy_LLamaRawModelData(raw, o) ==
  LET o1 == IF raw.data /= 0 /\ raw.data /= MAP_FAILED
              THEN [o EXCEPT !.live_maps = @ \ {raw.data}]
              ELSE o
  IN IF raw.fd /= -1 THEN [o1 EXCEPT !.open_fds = @ \ {raw.fd}] ELSE o1

\* unique_ptr reset: destroy the pointee, if any
ResetRawModelData(ptr, o) ==
  IF ptr = NULL THEN o ELSE Destroy_LLamaRawModelData(ptr[1], o)

\* weight(offset): element index of the float, counted from the mapping base
weight(raw, offset) == raw.weight_data + offset

\* is_weight_valid(peek)
is_weight_valid(raw, peek) ==
  IF peek * FloatSize < raw.file_size THEN TRUE ELSE FALSE

-----------------------------------------------------------------------------
(* Buffer registry *)

Result(st, m, o) == [status |-> st, m |-> m, o |-> o]

\* insert_buffer without the count() test: std::map::operator[] style overwrite
insert_buffer_overwrite(m, buffer_idx, tensor) ==
  [status |-> "Success",
   m |-> [m EXCEPT !.buffers_ =
            [k \in DOMAIN m.buffers_ \cup {buffer_idx} |->
               IF k = buffer_idx THEN tensor ELSE m.buffers_[k]]]]

\* insert_buffer(buffer_idx, tensor)
insert_buffer(m, buffer_idx, tensor) ==
  IF buffer_idx \in DOMAIN m.buffers_
    THEN [status |-> "KeyHasExits", m |-> m]
    ELSE [status |-> "Success",
          m |-> [m EXCEPT !.buffers_ =
                   [k \in DOMAIN m.buffers_ \cup {buffer_idx} |->
                      IF k = buffer_idx THEN tensor ELSE m.buffers_[k]]]]

\* get_buffer(buffer_idx): CHECK_GT(buffers_.count(buffer_idx), 0) is fatal
get_buffer_aborts(m, buffer_idx) == ~(buffer_idx \in DOMAIN m.buffers_)

-----------------------------------------------------------------------------
(* Loader *)

\* create_embedding_layer(): the weight slot is a view over the mapping
create_embedding_layer(m) ==
  LET cfg == m.config_[1]
      raw == m.raw_model_data_[1]
  IN [dim_ |-> cfg.dim, seq_len_ |-> cfg.seq_len, vocab_size_ |-> abs(cfg.vocab_size),
      weight |-> [map   |-> raw.data,
                  first |-> weight(raw, 0),
                  shape |-> <<abs(m.vocab_size_), cfg.dim>>,
                  device_type |-> m.device_type_]]

\* what fread leaves in *config_: the file's header, or the value-initialised
\* record when the file is shorter than the header
ReadConfig ==
  IF file.size >= HeaderSize THEN file.header
  ELSE [dim |-> 0, seq_len |-> 0, vocab_size |-> 0]

\* read_model_file(); open_ok / mmap_ok are the outcomes of open(2) and mmap(2)
read_model_file(m, o, open_ok, mmap_ok) ==
  IF ~file.exists
    THEN Result("PathNotValid", m, o)
  ELSE
    LET fh == o.next_id
        o1 == [o EXCEPT !.open_files = @ \cup {fh}, !.next_id = @ + 1]
        m1 == [m EXCEPT !.config_ = <<ReadConfig>>]
    IN
    IF file.size < HeaderSize
      THEN Result("ModelParseError", m1, o1)
    ELSE IF abs(m1.config_[1].vocab_size) /= m1.vocab_size_
      THEN Result("ModelParseError", m1, o1)
    ELSE
      LET o2   == ResetRawModelData(m1.raw_model_data_, o1)
          raw2 == [NewRawModelData EXCEPT !.file_size = file.size]
          o3   == [o2 EXCEPT !.open_files = @ \ {fh}]
      IN
      IF ~open_ok
        THEN Result("PathNotValid", [m1 EXCEPT !.raw_model_data_ = <<raw2>>], o3)
      ELSE
        LET fd   == o3.next_id
            o4   == [o3 EXCEPT !.open_fds = @ \cup {fd}, !.next_id = @ + 1]
            raw4 == [raw2 EXCEPT !.fd = fd]
        IN
        IF ~mmap_ok
          THEN Result("ModelParseError",
                      [m1 EXCEPT !.raw_model_data_ = <<[raw4 EXCEPT !.data = MAP_FAILED]>>], o4)
        ELSE
          LET mp   == o4.next_id
              o5   == [o4 EXCEPT !.live_maps = @ \cup {mp}, !.next_id = @ + 1]
              raw5 == [raw4 EXCEPT !.data = mp, !.weight_data = HeaderSize \div FloatSize]
              m5   == [m1 EXCEPT !.raw_model_data_ = <<raw5>>]
          IN Result("Success", [m5 EXCEPT !.embedding_layer_ = <<create_embedding_layer(m5)>>], o5)

-----------------------------------------------------------------------------
(* Runtime *)

Tensor(dtype, size, allocated) ==
  [data_type |-> dtype, size |-> size, allocated |-> allocated,
   data |-> [i \in 1..(IF allocated THEN size ELSE 0) |-> 0]]

\* init_mem(): aborted is TRUE when one of its CHECKs fails
init_mem(m, alloc_ok) ==
  IF m.config_ = NULL
    THEN [aborted |-> FALSE, m |-> m]
  ELSE IF m.device_type_ /= "kDeviceCPU"
    THEN [aborted |-> TRUE, m |-> m]
  ELSE
    LET max_seq_len      == m.config_[1].seq_len
        input_tokens     == Tensor("kDataTypeInt32", max_seq_len, alloc_ok)
        input_embeddings == Tensor("kDataTypeFp32", max_seq_len * m.config_[1].dim, alloc_ok)
        r1 == insert_buffer(m, "kInputTokens", input_tokens)
        r2 == insert_buffer(r1.m, "kInputEmbeddings", input_embeddings)
    IN IF r1.status /= "Success" THEN [aborted |-> TRUE, m |-> r1.m]
       ELSE IF r2.status /= "Success" THEN [aborted |-> TRUE, m |-> r2.m]
       ELSE [aborted |-> FALSE, m |-> r2.m]

\* a call that returned status st / a call that ended in abort()
Returned(op, st, m, o) ==
  [op |-> op, status |-> st, aborted |-> FALSE, m |-> m, o |-> o,
   written |-> 0, oob_writes |-> 0, embed_ran |-> FALSE]
\* a failed CHECK that reports an error status instead of ending the process
Aborted_returns(op, m, o) == Returned(op, "InternalError", m, o)

Aborted(op, m, o) ==
  [op |-> op, status |-> "None", aborted |-> TRUE, m |-> m, o |-> o,
   written |-> 0, oob_writes |-> 0, embed_ran |-> FALSE]

\* init(device_type)
init(m, o, device_type, open_ok, mmap_ok, alloc_ok) ==
  IF tok.path_empty
    THEN Returned("init", "PathNotValid", m, o)
  ELSE IF ~tok.loadable
    THEN Returned("init", "PathNotValid", m, o)
  ELSE
    LET m1 == [m EXCEPT !.vocab_size_ = tok.pieces]
    IN
    IF m1.vocab_size_ <= 0
      THEN Returned("init", "ModelParseError", m1, o)
    ELSE
      LET m2 == [m1 EXCEPT !.device_type_ = device_type, !.encode_layer_ = TRUE]
          rd == read_model_file(m2, o, open_ok, mmap_ok)
      IN
      IF rd.status /= "Success"
        THEN Returned("init", rd.status, rd.m, rd.o)
      ELSE
        LET im == init_mem(rd.m, alloc_ok)
        IN IF im.aborted THEN Aborted("init", im.m, rd.o)
           ELSE Returned("init", "Success", im.m, rd.o)
-----------------------------------------------------------------------------
(* forward *)

Min(a, b) == IF a < b THEN a ELSE b

\* EmbeddingLayer::forward(): InternalError when a token id is outside
\* [0, vocab_size); otherwise it reads one weight row per token.  Reading a
\* row that is not backed by a live mapping of the file is undefined: the
\* process may die on the access or go on with whatever bytes it got.
EmbeddingForward(layer, tokens, m, o) ==
  LET w      == layer.weight
      rowsOK == /\ w.map \in o.live_maps
                /\ \A i \in 1..Len(tokens) :
                     (w.first + (tokens[i] + 1) * layer.dim_) * FloatSize
                        <= m.raw_model_data_[1].file_size
  IN IF \E i \in 1..Len(tokens) : tokens[i] < 0 \/ tokens[i] >= layer.vocab_size_
       THEN {"InternalError"}
     ELSE IF rowsOK THEN {"Success"}
     ELSE {"Success", "abort"}

\* the loop of forward(): *input_tokens_ptr = token; input_tokens_ptr += 1
WriteTokens(tensor, tokens) ==
  [tensor EXCEPT !.data =
     [i \in 1..tensor.size |-> IF i <= Len(tokens) THEN tokens[i] ELSE tensor.data[i]]]

\* forward(tokens, start_pos): the set of outcomes of the call
forward(m, o, tokens) ==
  IF get_buffer_aborts(m, "kInputTokens") THEN {Aborted("forward", m, o)}
  ELSE IF get_buffer_aborts(m, "kInputEmbeddings") THEN {Aborted("forward", m, o)}
  ELSE
    LET input_tokens == m.buffers_["kInputTokens"]
    IN
    IF ~input_tokens.allocated
      THEN {Returned("forward", "InternalError", m, o)}
    ELSE
      LET inb == Min(Len(tokens), input_tokens.size)
          oob == Len(tokens) - inb
          m1  == [m EXCEPT !.buffers_["kInputTokens"] = WriteTokens(input_tokens, tokens)]
          wr(r) == [r EXCEPT !.written = inb, !.oob_writes = oob]
          rest ==
            IF m1.embedding_layer_ = NULL
              THEN {wr(Returned("forward", "InternalError", m1, o))}
            ELSE
              {IF st = "abort"
                 THEN [wr(Aborted("forward", m1, o)) EXCEPT !.embed_ran = TRUE]
                 ELSE [wr(Returned("forward", st, m1, o)) EXCEPT !.embed_ran = TRUE]
               : st \in EmbeddingForward(m1.embedding_layer_[1], tokens, m1, o)}
      IN IF oob > 0 THEN {wr(Aborted("forward", m1, o))} \cup rest ELSE rest

-----------------------------------------------------------------------------
(* Buffer::copy_from, as driven by test_buffer.cpp *)

Spaces == {"Host", "Accel"}
Bytes  == 0..MaxByte
SpaceOf(kind) == IF kind = "kDeviceCUDA" THEN "Accel" ELSE "Host"

SrcAddr == 0            \* the source buffer occupies SrcAddr+1 .. SrcAddr+BufLen
DstAddr == BufLen       \* the destination occupies DstAddr+1 .. DstAddr+BufLen

\* Buffer(byte_size, allocator): owned, device type that of the allocator
OwnedBuffer(byte_size, alloc_kind, addr) ==
  [byte_size |-> byte_size, ptr |-> [space |-> SpaceOf(alloc_kind), addr |-> addr],
   device_type |-> alloc_kind, use_external |-> FALSE, allocator |-> <<alloc_kind>>]

\* Buffer(byte_size, nullptr, ptr, true) followed by set_device_type(kind)
ExternalBuffer(byte_size, space, addr, kind) ==
  [byte_size |-> byte_size, ptr |-> [space |-> space, addr |-> addr],
   device_type |-> kind, use_external |-> TRUE, allocator |-> NULL]

\* the buffers each test builds: <<destination, source>>
cuda_memcpy1 ==
  <<OwnedBuffer(BufLen, "kDeviceCUDA", DstAddr),
    ExternalBuffer(BufLen, "Host", SrcAddr, "kDeviceCPU")>>
cuda_memcpy2 ==
  <<OwnedBuffer(BufLen, "kDeviceCUDA", DstAddr), OwnedBuffer(BufLen, "kDeviceCUDA", SrcAddr)>>
cuda_memcpy3 ==
  <<OwnedBuffer(BufLen, "kDeviceCPU", DstAddr), OwnedBuffer(BufLen, "kDeviceCUDA", SrcAddr)>>
cuda_memcpy4 ==
  <<OwnedBuffer(BufLen, "kDeviceCPU", DstAddr),
    ExternalBuffer(BufLen, "Host", SrcAddr, "kDeviceCPU")>>
BufferTests == {cuda_memcpy1, cuda_memcpy2, cuda_memcpy3, cuda_memcpy4}

\* the bytes a buffer holds, read from the memory space its pointer lives in
Contents(mm, b) == [i \in 1..b.byte_size |-> mm[b.ptr.space][b.ptr.addr + i]]

\* the allocator's copy routine: the transfer kind names the memory space read
\* and the memory space written; a transfer whose kind does not match where
\* the pointers live moves nothing
memcpy(mm, dptr, sptr, nbytes, kind) ==
  IF kind[1] = dptr.space /\ kind[2] = sptr.space
    THEN [mm EXCEPT ![dptr.space] =
            [a \in DOMAIN mm[dptr.space] |->
               IF a > dptr.addr /\ a <= dptr.addr + nbytes
                 THEN mm[sptr.space][sptr.addr + (a - dptr.addr)]
                 ELSE mm[dptr.space][a]]]
    ELSE mm

\* copy_from that looks at the destination's device type only
copy_from_dst_kind_only(this, source, mm) ==
  LET kind   == <<SpaceOf(this.device_type), SpaceOf(this.device_type)>>
      nbytes == Min(this.byte_size, source.byte_size)
  IN [mem |-> memcpy(mm, this.ptr, source.ptr, nbytes, kind), this |-> this]

\* copy_from(source): the transfer kind is chosen from both device types
copy_from(this, source, mm) ==
  LET kind   == <<SpaceOf(this.device_type), SpaceOf(source.device_type)>>
      nbytes == Min(this.byte_size, source.byte_size)
  IN [mem |-> memcpy(mm, this.ptr, source.ptr, nbytes, kind), this |-> this]

-----------------------------------------------------------------------------
(* Initial states *)

FreshModel ==
  [vocab_size_ |-> 0, device_type_ |-> "kDeviceUnknown", encode_layer_ |-> FALSE,
   config_ |-> NULL, raw_model_data_ |-> NULL, embedding_layer_ |-> NULL,
   buffers_ |-> [k \in {} |-> 0]]

FreshOS == [open_files |-> {}, open_fds |-> {}, live_maps |-> {}, next_id |-> 1]

NoCall ==
  [op |-> "none", status |-> "None", aborted |-> FALSE, written |-> 0,
   oob_writes |-> 0, embed_ran |-> FALSE, arg |-> <<>>]

TokenFiles ==
  {[path_empty |-> TRUE, loadable |-> FALSE, pieces |-> 0],
   [path_empty |-> FALSE, loadable |-> FALSE, pieces |-> 0]}
  \cup {[path_empty |-> FALSE, loadable |-> TRUE, pieces |-> p] : p \in PieceSizes}

Headers == [dim : Dims, seq_len : SeqLens, vocab_size : VocabSizes]

ModelFiles ==
  {[exists |-> FALSE, size |-> 0, header |-> [dim |-> 0, seq_len |-> 0, vocab_size |-> 0]]}
  \cup {[exists |-> TRUE, size |-> sz, header |-> [dim |-> 0, seq_len |-> 0, vocab_size |-> 0]]
          : sz \in 0..(HeaderSize - 1)}
  \cup {[exists |-> TRUE, size |-> sz, header |-> h] : sz \in HeaderSize..MaxFileSize, h \in Headers}

ZeroMem == [s \in Spaces |-> [a \in 1..(2 * BufLen) |-> 0]]
NoBuffer == ExternalBuffer(0, "Host", 0, "kDeviceCPU")

Init ==
  /\ tok \in TokenFiles
  /\ file \in ModelFiles
  /\ model = FreshModel
  /\ os = FreshOS
  /\ ret = NoCall
  /\ calls = 0
  /\ mem = ZeroMem
  /\ dst = NoBuffer
  /\ src = NoBuffer

Outcome(r, arg) ==
  /\ model' = r.m
  /\ os' = r.o
  /\ ret' = [op |-> r.op, status |-> r.status, aborted |-> r.aborted, written |-> r.written,
             oob_writes |-> r.oob_writes, embed_ran |-> r.embed_ran, arg |-> arg]
  /\ calls' = calls + 1

InitCall ==
  /\ ~ret.aborted
  /\ calls < MaxCalls
  /\ \E device_type \in DeviceTypes, open_ok \in BOOLEAN, mmap_ok \in BOOLEAN,
        alloc_ok \in BOOLEAN :
       Outcome(init(model, os, device_type, open_ok, mmap_ok, alloc_ok), device_type)
  /\ UNCHANGED <<tok, file, mem, dst, src>>

ForwardCall ==
  /\ ~ret.aborted
  /\ calls < MaxCalls
  /\ \E tokens \in SeqsUpTo(TokenIds, MaxTokens) :
       \E r \in forward(model, os, tokens) : Outcome(r, tokens)
  /\ UNCHANGED <<tok, file, mem, dst, src>>

Next == InitCall \/ ForwardCall

Spec == Init /\ [][Next]_vars

-----------------------------------------------------------------------------
(* The registry on its own: any sequence of insert_buffer calls *)

TensorOf(id) == Tensor("kDataTypeInt32", id, TRUE)

InitRegistry ==
  /\ tok = [path_empty |-> TRUE, loadable |-> FALSE, pieces |-> 0]
  /\ file = [exists |-> FALSE, size |-> 0, header |-> [dim |-> 0, seq_len |-> 0, vocab_size |-> 0]]
  /\ model = FreshModel
  /\ os = FreshOS
  /\ ret = NoCall
  /\ calls = 0
  /\ mem = ZeroMem
  /\ dst = NoBuffer
  /\ src = NoBuffer

InsertBufferCall ==
  /\ \E buffer_idx \in BufferIdxs, id \in 1..MaxTensorId :
       LET r == insert_buffer(model, buffer_idx, TensorOf(id))
       IN /\ model' = r.m
          /\ ret' = [NoCall EXCEPT !.op = "insert_buffer", !.status = r.status,
                                   !.arg = <<buffer_idx, TensorOf(id)>>]
  /\ UNCHANGED <<tok, file, os, calls, mem, dst, src>>

NextRegistry == InsertBufferCall

SpecRegistry == InitRegistry /\ [][NextRegistry]_vars

-----------------------------------------------------------------------------
(* The buffer tests on their own *)

InitBuffer ==
  /\ tok = [path_empty |-> TRUE, loadable |-> FALSE, pieces |-> 0]
  /\ file = [exists |-> FALSE, size |-> 0, header |-> [dim |-> 0, seq_len |-> 0, vocab_size |-> 0]]
  /\ model = FreshModel
  /\ os = FreshOS
  /\ ret = NoCall
  /\ calls = 0
  /\ \E t \in BufferTests :
       /\ dst = t[1]
       /\ src = t[2]
       /\ mem \in {mm \in [Spaces -> [1..(2 * BufLen) -> Bytes]] :
                    \A s \in Spaces, a \in 1..(2 * BufLen) :
                       mm[s][a] /= 0 =>
                         \/ s = t[1].ptr.space /\ a > DstAddr
                         \/ s = t[2].ptr.space /\ a <= BufLen}

CopyFromCall ==
  /\ ret.op = "none"
  /\ LET r == copy_from(dst, src, mem)
     IN /\ mem' = r.mem
        /\ dst' = r.this
        /\ ret' = [NoCall EXCEPT !.op = "copy_from", !.status = "Success",
                                 !.arg = <<Contents(mem, dst), Contents(mem, src)>>]
  /\ UNCHANGED <<tok, file, model, os, calls, src>>

NextBuffer == CopyFromCall

SpecBuffer == InitBuffer /\ [][NextBuffer]_vars
-----------------------------------------------------------------------------
(* Properties *)

InitStep    == ret'.op = "init" /\ calls' = calls + 1
ForwardStep == ret'.op = "forward" /\ calls' = calls + 1

\* C1: for every element offset and every file size, is_weight_valid(offset)
\* is true exactly when (offset + 1) * 4 <= file_size, that is when the
\* whole float at that offset lies inside the file.
C1_ValidIffFloatInsideFile ==
  model.raw_model_data_ /= NULL =>
    \A offset \in 0..MaxOffset :
       is_weight_valid(model.raw_model_data_[1], offset)
         <=> ((offset + 1) * FloatSize <= model.raw_model_data_[1].file_size)

\* C2: an init whose load fails returns with every resource the call opened
\* released: no stdio handle, descriptor or mapping is open that was not
\* open before the call.
C2_FailedLoadReleasesAll ==
  [][(InitStep /\ ~ret'.aborted /\ ret'.status /= "Success") =>
       /\ os'.open_files \subseteq os.open_files
       /\ os'.open_fds \subseteq os.open_fds
       /\ os'.live_maps \subseteq os.live_maps]_vars

\* C3: init is atomic: whenever it returns a non-success status the runtime
\* holds no encoder, no config, no mapped-file object, no embedding layer and
\* no registered buffer, as when freshly constructed.
C3_FailedInitLeavesFresh ==
  (ret.op = "init" /\ ~ret.aborted /\ ret.status /= "Success") =>
    /\ model.encode_layer_ = FreshModel.encode_layer_
    /\ model.config_ = NULL
    /\ model.raw_model_data_ = NULL
    /\ model.embedding_layer_ = NULL
    /\ DOMAIN model.buffers_ = {}

\* C4: after any sequence of init and forward calls, the mapping the
\* embedding layer's weight view points into is still mapped.
C4_WeightViewMapped ==
  (~ret.aborted /\ model.embedding_layer_ /= NULL) =>
    model.embedding_layer_[1].weight.map \in os.live_maps

\* C5: init on a freshly constructed runtime returns a Status rather than
\* aborting the process, for each device kind and every file content.
C5_FirstInitReturns ==
  (ret.op = "init" /\ calls = 1) => ~ret.aborted

C7_RegistryWriteOnce ==
  [][ret'.op = "insert_buffer" =>
       LET key == ret'.arg[1]
           tensor == ret'.arg[2]
       IN IF key \in DOMAIN model.buffers_
            THEN ret'.status = "KeyHasExits" /\ model' = model
            ELSE /\ ret'.status = "Success"
                 /\ DOMAIN model'.buffers_ = DOMAIN model.buffers_ \cup {key}
                 /\ model'.buffers_[key] = tensor
                 /\ \A k \in DOMAIN model.buffers_ : model'.buffers_[k] = model.buffers_[k]]_vars

C7_Witness ==
  /\ ret.op = "insert_buffer"
  /\ ret.status = "KeyHasExits"
  /\ model.buffers_[ret.arg[1]] /= ret.arg[2]
  /\ DOMAIN model.buffers_ = BufferIdxs

\* C8: for every (destination, source) device pair and buffers of equal
\* length, copy_from leaves the destination's bytes equal to the source's,
\* the source's bytes unchanged and both device types unchanged (an owned
\* buffer's type stays that of its allocator).
C8_CopyFromReproducesBytes ==
  [][ret'.op = "copy_from" =>
       /\ Contents(mem', dst') = Contents(mem, src)
       /\ Contents(mem', src') = Contents(mem, src)
       /\ dst'.device_type = dst.device_type
       /\ src'.device_type = src.device_type
       /\ dst'.allocator /= NULL => dst'.device_type = dst'.allocator[1]
       /\ src'.allocator /= NULL => src'.device_type = src'.allocator[1]]_vars

C8_Witness ==
  /\ ret.op = "copy_from"
  /\ dst.device_type = "kDeviceCPU" /\ src.device_type = "kDeviceCUDA"
  /\ ret.arg[1] /= ret.arg[2]
  /\ Contents(mem, dst) = ret.arg[2]

\* C9: whenever init succeeds, the embedding view [vocab_size, dim] at weight
\* offset 0 lies inside the mapped file: header + vocab_size * dim * 4 <=
\* file_size, and is_weight_valid holds for each of its elements.
C9_EmbeddingViewInsideFile ==
  (ret.op = "init" /\ ~ret.aborted /\ ret.status = "Success") =>
    LET raw == model.raw_model_data_[1]
        w   == model.embedding_layer_[1].weight
        n   == w.shape[1] * w.shape[2]
    IN /\ HeaderSize + n * FloatSize <= raw.file_size
       /\ \A k \in 0..(n - 1) : is_weight_valid(raw, w.first + k)

\* C10: forward never writes a token id outside the token-id buffer of
\* seq_len elements, also for a token sequence longer than seq_len.
C10_NoTokenWriteOutsideBuffer ==
  ret.op = "forward" => ret.oob_writes = 0
====
